---- MODULE Spec2Model ----
(***************************************************************************)
(* Model of the price window of src/alpha/coinframe.py (CoinFrame: live    *)
(* update, back-test replay, prep_backtest, validate) and of the mock      *)
(* order book of src/alpha/mocks/order_book.py, and of the rule grammar of *)
(* src/alpha/condition.py (Calc, Condition) and src/alpha/outcome.py, and  *)
(* of the indicators of CoinFrame (ema, dema, dema_delta, price, max, min, *)
(* spread) with the cache of their last values.                            *)
(*                                                                         *)
(* A python dict is a sequence of rows with pairwise distinct keys, in     *)
(* insertion order.  A row of the price table is a record                  *)
(*   [tm, price, cols, elapsed_m]                                          *)
(* where cols is the set of columns the row's dict holds; elapsed_m is     *)
(* meaningful only when "elapsed_m" \in cols.                              *)
(***************************************************************************)
EXTENDS Integers, Sequences, FiniteSets, TLC

\* ---------------------------------------------------------------- bounds
\* initial windows take their minute timestamps from 1..MaxTm
MaxTm == 4
\* number of live update() calls in one behaviour
MaxUpdates == 2
\* warm-up lengths n range over 0..MaxN
MaxN == 2
\* number of order() calls in one behaviour of the order book
MaxOrders == 3
\* number of Conditions in one rule list
MaxCds == 2
\* number of rows of the windows the indicators are computed over
MaxLen == 4

\* prices carried by ticker messages
FeedPrices == {20, 21}
\* timestamps carried by ticker messages
FeedTms == {0} \cup ((MaxTm - 1)..(MaxTm + 1))

\* CoinFrame.__init__: self.e = e or (int() + 1)
DefaultE == 1

VARIABLES
    obj,           \* CoinFrame._obj: the DataFrame, its rows in index order
    src,           \* CoinFrame._src: dict tm -> row, in insertion order
    src_backtest,  \* CoinFrame._src_backtest: the replay queue
    is_backtest,   \* CoinFrame.is_backtest
    n,             \* CoinFrame.n: warm-up length
    e,             \* CoinFrame.e: staleness threshold in minutes
    last,          \* the last call on the frame: its inputs, outcome, pre-state
    updates,       \* number of live update() calls so far
    monotone,      \* every ticker timestamp so far was >= the newest key
    prepped,       \* calls since the last successful prep_backtest
    usd,           \* OrderBook.usd
    amt,           \* OrderBook.amt
    orders,        \* OrderBook.orders: dict tm -> Order, in insertion order
    id,            \* OrderBook._id
    calls,         \* the order() calls made so far, with their outcome
    cds,           \* Outcome.cds: the Conditions, in the order of the rule list
    applied,       \* the last call on the Outcome: its values and its outcome
    calcs,         \* CoinFrame.calcs: dict column name -> last value
    result         \* the last indicator call: its arguments and what it returned

frameVars == <<obj, src, src_backtest, is_backtest, n, e, last, updates,
               monotone, prepped>>
bookVars == <<usd, amt, orders, id, calls>>
ruleVars == <<cds, applied>>
indVars == <<calcs, result>>
vars == <<obj, src, src_backtest, is_backtest, n, e, last, updates,
          monotone, prepped, usd, amt, orders, id, calls, cds, applied,
          calcs, result>>

\* ------------------------------------------------------- dict operations
Row(t, p) == [tm |-> t, price |-> p, cols |-> {"price"}, elapsed_m |-> 0]

keys(d) == {d[i].tm : i \in DOMAIN d}

\* min(dict) / max(dict) over the keys; python raises ValueError on an empty one
first(d) == CHOOSE x \in keys(d) : \A y \in keys(d) : x <= y

last_(d) == CHOOSE x \in keys(d) : \A y \in keys(d) : x >= y

\* dict.pop(k)
pop(d, k) == SelectSeq(d, LAMBDA r : r.tm # k)

\* d[k]
getitem(d, k) == d[CHOOSE i \in DOMAIN d : d[i].tm = k]

\* d[k] = row: an existing key keeps its position, a new key goes last
setitem(d, k, row) ==
    IF k \in keys(d)
    THEN [i \in DOMAIN d |-> IF d[i].tm = k THEN [row EXCEPT !.tm = k] ELSE d[i]]
    ELSE Append(d, [row EXCEPT !.tm = k])

\* the rows of d ordered by timestamp
RECURSIVE sorted(_)
sorted(d) ==
    IF d = <<>> THEN <<>>
    ELSE <<getitem(d, first(d))>> \o sorted(pop(d, first(d)))

\* DataFrame.to_dict(orient='index'): one entry per row, in row order
to_dict(o) == o

\* DataFrame.from_dict(data, orient='index') with a single column: the rows
\* come in key order of the dict, or sorted by key, depending on the pandas
\* release; both outcomes are kept.
from_dict(d) == {d, sorted(d)}

\* CoinFrame.src(): self._src is (re)loaded from the DataFrame when it is empty
src_refresh(s, o) == IF s = <<>> THEN to_dict(o) ELSE s

\* the (tm, price) content of a table, without the bookkeeping columns
tp(d) == [i \in DOMAIN d |-> <<d[i].tm, d[i].price>>]

\* ------------------------------------------------------------ CoinFrame
\* Msg.feed(): (minute timestamp, {'price': price})
feed(t, p) == <<t, Row(t, p)>>

\* update() that never evicts
update_nopop(s, o, t, row) ==
    LET s0 == src_refresh(s, o) IN
    IF s0 = <<>>
    THEN [raised |-> "ValueError", src |-> s0]
    ELSE [raised |-> "none", src |-> setitem(s0, t, row)]

\* update() that evicts whatever the timestamp
update_alwayspop(s, o, t, row) ==
    LET s0 == src_refresh(s, o) IN
    IF s0 = <<>>
    THEN [raised |-> "ValueError", src |-> s0]
    ELSE [raised |-> "none", src |-> setitem(pop(s0, last_(s0)), t, row)]

\* CoinFrame.update(), live branch: the new dict self._src, or the error
update(s, o, t, row) ==
    LET s0 == src_refresh(s, o) IN
    IF s0 = <<>>
    THEN [raised |-> "ValueError", src |-> s0]
    ELSE LET s1 == IF (t - last_(s0)) > 0 THEN pop(s0, last_(s0)) ELSE s0
         IN  [raised |-> "none", src |-> setitem(s1, t, row)]

\* _update_backtest() that removes the newest live entry
update_backtest_poplast(s, o, bt) ==
    LET s0 == src_refresh(s, o) IN
    IF bt = <<>> \/ s0 = <<>>
    THEN [raised |-> "BackTestCompletedError", src |-> s0, src_backtest |-> bt]
    ELSE [raised |-> "none",
          src |-> setitem(pop(s0, last_(s0)), first(bt), getitem(bt, first(bt))),
          src_backtest |-> pop(bt, first(bt))]

\* _update_backtest() that removes the oldest live entry before it looks at
\* the replay queue
update_backtest_popfirst(s, o, bt) ==
    LET s0 == src_refresh(s, o) IN
    IF s0 = <<>>
    THEN [raised |-> "BackTestCompletedError", src |-> s0, src_backtest |-> bt]
    ELSE IF bt = <<>>
    THEN [raised |-> "BackTestCompletedError", src |-> pop(s0, first(s0)),
          src_backtest |-> bt]
    ELSE [raised |-> "none",
          src |-> setitem(pop(s0, first(s0)), first(bt), getitem(bt, first(bt))),
          src_backtest |-> pop(bt, first(bt))]

\* _update_backtest() that stores the replayed price under the timestamp of
\* the live entry it removed
update_backtest_livekey(s, o, bt) ==
    LET s0 == src_refresh(s, o) IN
    IF bt = <<>> \/ s0 = <<>>
    THEN [raised |-> "BackTestCompletedError", src |-> s0, src_backtest |-> bt]
    ELSE [raised |-> "none",
          src |-> setitem(pop(s0, first(s0)), first(s0), getitem(bt, first(bt))),
          src_backtest |-> pop(bt, first(bt))]

\* CoinFrame._update_backtest(): the new self._src and self._src_backtest,
\* or BackTestCompletedError for a ValueError of min() on an empty dict
update_backtest(s, o, bt) ==
    LET s0 == src_refresh(s, o) IN
    IF bt = <<>> \/ s0 = <<>>
    THEN [raised |-> "BackTestCompletedError", src |-> s0, src_backtest |-> bt]
    ELSE LET tmstmp == first(bt)
             s1 == pop(s0, first(s0))
             price == getitem(bt, first(bt))
         IN  [raised |-> "none",
              src |-> setitem(s1, tmstmp, price),
              src_backtest |-> pop(bt, first(bt))]

\* some row of the table holds the column elapsed_m
has_elapsed(o) == \E i \in DOMAIN o : "elapsed_m" \in o[i].cols

\* validate() that checks the age of the data in a feed context as well
validate_feedstale(o, is_feed, backtest, thr) ==
    IF o = <<>> THEN "IndexError"
    ELSE IF ~backtest
    THEN IF ~has_elapsed(o) THEN "KeyError"
         ELSE IF "elapsed_m" \in o[Len(o)].cols /\ o[Len(o)].elapsed_m > thr
              THEN "ExpiredPriceDataError"
              ELSE "none"
    ELSE "none"

\* CoinFrame.validate(): the error it raises, "none" when it passes
validate(o, is_feed, backtest, thr) ==
    IF o = <<>> THEN "IndexError"
    ELSE IF ~is_feed /\ ~backtest
    THEN IF ~has_elapsed(o) THEN "KeyError"
         ELSE IF "elapsed_m" \in o[Len(o)].cols /\ o[Len(o)].elapsed_m > thr
              THEN "ExpiredPriceDataError"
              ELSE "none"
    ELSE "none"

\* CoinFrame.validate(): every column but price is dropped from the table
drop_columns(o) == [i \in DOMAIN o |-> Row(o[i].tm, o[i].price)]

\* prep_backtest() that keeps n minutes, not n*2
split_backtest_n(s0, warm) ==
    SelectSeq(s0, LAMBDA r : r.tm >= (first(s0) + warm))

\* CoinFrame.prep_backtest(): the rows that go to the replay queue
split_backtest(s0, warm) ==
    SelectSeq(s0, LAMBDA r : r.tm >= (first(s0) + (warm * 2)))

\* CoinFrame.prep_backtest(): the rows left in self._src
split_live(s0, warm) ==
    SelectSeq(s0, LAMBDA r : r.tm \notin keys(split_backtest(s0, warm)))

\* the content of the live buffer as CoinFrame.src() returns it
live == src_refresh(src, obj)

Call(op, raised, t, p, feedflag) ==
    [op |-> op, raised |-> raised, tm |-> t, price |-> p, is_feed |-> feedflag,
     pre |-> live, pre_bt |-> src_backtest]

\* ------------------------------------------------------------ OrderBook
\* A Float is a rational <<numerator, denominator>> in lowest terms with a
\* positive denominator: the arithmetic of mocks/number.py without the
\* rounding error of the machine float (Float.__init__ rounds nothing: the
\* value is fixed by float.__new__ before it runs).
RECURSIVE gcd(_, _)
gcd(a, b) == IF b = 0 THEN a ELSE gcd(b, a % b)

norm(q) ==
    LET a == IF q[1] < 0 THEN 0 - q[1] ELSE q[1]
        s == IF q[2] < 0 THEN 0 - 1 ELSE 1
        b == s * q[2]
        g == gcd(a, b)
    IN <<(s * q[1]) \div g, b \div g>>

\* Float(): 0.0; Float(i)
Float(i) == <<i, 1>>

\* Float.__add__
add(a, b) == norm(<<(a[1] * b[2]) + (b[1] * a[2]), a[2] * b[2]>>)

\* Float.__mul__
mul(a, b) == norm(<<a[1] * b[1], a[2] * b[2]>>)

\* Float.__truediv__, for a divisor that is not zero
truediv(a, b) == norm(<<a[1] * b[2], a[2] * b[1]>>)

\* bool(Float)
truthy(a) == a[1] # 0

\* md5_hash(f"{self._id}{str(tm)}"): the hash of the two numbers' digits
md5_hash(i, tm) == <<i, tm>>

\* OrderBook._buy: the Order, or the error raised
buy_(u, a, i, price, tm) ==
    IF ~truthy(price) THEN [raised |-> "ZeroDivisionError"]
    ELSE IF add(a, truediv(u, price)) = Float(0)
    THEN [raised |-> "AssertionError"]
    ELSE [raised |-> "none",
          order |-> [tm |-> tm, id |-> md5_hash(i, tm), side |-> "buy",
                     executed_value |-> u,
                     filled_size |-> add(a, truediv(u, price))]]

\* _sell without its assertion
sell_noassert(u, a, i, price, tm) ==
    [raised |-> "none",
     order |-> [tm |-> tm, id |-> md5_hash(i, tm), side |-> "sell",
                executed_value |-> add(u, mul(a, price)),
                filled_size |-> a]]

\* OrderBook._sell: the Order, or the error raised
sell_(u, a, i, price, tm) ==
    IF ~truthy(add(u, mul(a, price))) THEN [raised |-> "AssertionError"]
    ELSE [raised |-> "none",
          order |-> [tm |-> tm, id |-> md5_hash(i, tm), side |-> "sell",
                     executed_value |-> add(u, mul(a, price)),
                     filled_size |-> a]]

\* order() whose buy leaves the currency balance as it was
order_keepusd(u, a, os, i, mode, price, tm) ==
    LET o == IF mode = "sell" THEN sell_(u, a, i, price, tm)
             ELSE buy_(u, a, i, price, tm)
    IN IF o.raised # "none"
       THEN [raised |-> o.raised, usd |-> u, amt |-> a, orders |-> os]
       ELSE IF mode = "buy"
       THEN [raised |-> "none", usd |-> u,
             amt |-> add(a, truediv(u, price)),
             orders |-> setitem(os, tm, o.order)]
       ELSE [raised |-> "none", usd |-> add(u, mul(a, price)),
             amt |-> Float(0),
             orders |-> setitem(os, tm, o.order)]

\* order() whose buy multiplies by the price
order_buymul(u, a, os, i, mode, price, tm) ==
    LET o == IF mode = "sell" THEN sell_(u, a, i, price, tm)
             ELSE buy_(u, a, i, price, tm)
    IN IF o.raised # "none"
       THEN [raised |-> o.raised, usd |-> u, amt |-> a, orders |-> os]
       ELSE IF mode = "buy"
       THEN [raised |-> "none", usd |-> Float(0),
             amt |-> add(a, mul(u, price)),
             orders |-> setitem(os, tm, o.order)]
       ELSE [raised |-> "none", usd |-> add(u, mul(a, price)),
             amt |-> Float(0),
             orders |-> setitem(os, tm, o.order)]

\* order() that computes the balances and keeps no record
order_norecord(u, a, os, i, mode, price, tm) ==
    LET o == IF mode = "sell" THEN sell_(u, a, i, price, tm)
             ELSE buy_(u, a, i, price, tm)
    IN IF o.raised # "none"
       THEN [raised |-> o.raised, usd |-> u, amt |-> a, orders |-> os]
       ELSE IF mode = "buy"
       THEN [raised |-> "none", usd |-> Float(0),
             amt |-> add(a, truediv(u, price)), orders |-> os]
       ELSE [raised |-> "none", usd |-> add(u, mul(a, price)),
             amt |-> Float(0), orders |-> os]

\* OrderBook.order: the error raised, and the balances and orders it leaves
order(u, a, os, i, mode, price, tm) ==
    LET o == IF mode = "sell" THEN sell_(u, a, i, price, tm)
             ELSE buy_(u, a, i, price, tm)
    IN IF o.raised # "none"
       THEN [raised |-> o.raised, usd |-> u, amt |-> a, orders |-> os]
       ELSE IF mode = "buy"
       THEN [raised |-> "none", usd |-> Float(0),
             amt |-> add(a, truediv(u, price)),
             orders |-> setitem(os, tm, o.order)]
       ELSE [raised |-> "none", usd |-> add(u, mul(a, price)),
             amt |-> Float(0),
             orders |-> setitem(os, tm, o.order)]

\* ---------------------------------------------------------- rule grammar
\* A token of a rule is a string: a stem followed by `stars` '*' characters.
\* The stem of a name token is the name, the stem of a threshold token is
\* its decimal numeral, held as the rational it denotes.
Str(stem, stars) == [stem |-> stem, stars |-> stars]

\* x.endswith('*' * k)
endswith(x, k) == x.stars >= k

\* x[:-k], for a string that ends in k '*'
strip(x, k) == [x EXCEPT !.stars = @ - k]

\* float(x): ValueError while a '*' is left in the numeral
float_(x) == IF x.stars = 0 THEN norm(x.stem) ELSE "ValueError"

\* a < b on Floats
lt(a, b) == (a[1] * b[2]) < (b[1] * a[2])

\* round(v, 3), for a v that is not half way between two thousandths
round3(q) == norm(<<((2000 * q[1]) + q[2]) \div (2 * q[2]), 1000>>)

\* Alpha.type_convert on one attribute: a float becomes Float(round(v, 3)),
\* an int is left as it is
type_convert(b) == IF b.isFloat THEN [b EXCEPT !.v = round3(@)] ELSE b

\* the names dir(CoinFrame()) lists that a rule can use: the indicators
dir_CoinFrame == {"ema", "dema", "dema_delta", "price", "max", "min",
                  "spread"}

\* Calc(raw=raw): raw is <<name>> or <<name, bound>>
Calc(raw) ==
    LET nm0 == raw[1]
        b0 == IF Len(raw) = 2
              THEN [isFloat |-> TRUE, v |-> Float(raw[2])]
              ELSE [isFloat |-> FALSE, v |-> Float(0 - 1)]
        b60 == [isFloat |-> TRUE, v |-> mul(b0.v, Float(60))]
        nm1 == IF endswith(nm0, 1) THEN strip(nm0, 1)
               ELSE IF endswith(nm0, 2) THEN strip(nm0, 2)
               ELSE nm0
        b1 == IF endswith(nm0, 1) THEN b60
              ELSE IF endswith(nm0, 2) THEN b60
              ELSE b0
    IN [raw |-> raw, nm |-> nm1, bound |-> type_convert(b1),
        val |-> Float(0),
        is_ma |-> nm1.stars = 0 /\ nm1.stem \in dir_CoinFrame]

\* int(x): truncation towards zero
int(q) == IF q[1] >= 0 THEN q[1] \div q[2] ELSE 0 - ((0 - q[1]) \div q[2])

\* Calc.name: f"{nm} (n={int(bound)})" for a Float bound, nm otherwise
Calc_name(c) ==
    IF c.bound.isFloat THEN <<c.nm, "n", int(c.bound.v)>> ELSE <<c.nm>>

\* Calc.__bool__
Calc_bool(c) == truthy(c.val)

\* a division that yields the dividend when the divisor is unset
Calc_truediv_dividend(a, b) ==
    IF Calc_bool(a) /\ Calc_bool(b) THEN truediv(a.val, b.val) ELSE a.val

\* Calc.__truediv__
Calc_truediv(a, b) ==
    IF Calc_bool(a) /\ Calc_bool(b) THEN truediv(a.val, b.val) ELSE Float(0)

\* Condition(raw=raw): raw is <<calc token, calc token, <<threshold>>>>
Condition(raw) ==
    LET t_r == raw[Len(raw)][1]
        eq == endswith(t_r, 2)
        gt == endswith(t_r, 1) /\ ~endswith(t_r, 2)
        t == IF gt THEN float_(strip(t_r, 1))
             ELSE IF eq THEN float_(strip(t_r, 2))
             ELSE float_(t_r)
    IN [raw |-> raw, calcs |-> <<Calc(raw[1]), Calc(raw[2])>>,
        t_r |-> t_r, eq |-> eq, gt |-> gt, t |-> round3(t)]

\* a Calc of the Condition is 'price-last' and holds no value
bypass(cd) ==
    \E i \in DOMAIN cd.calcs :
       cd.calcs[i].nm = Str("price-last", 0) /\ ~Calc_bool(cd.calcs[i])

\* Condition.actual
Condition_actual(cd) ==
    IF bypass(cd) THEN Float(0)
    ELSE Calc_truediv(cd.calcs[2], cd.calcs[1])

\* a Condition without the 'price-last' bypass
Condition_bool_nobypass(cd) ==
    IF cd.gt THEN lt(cd.t, Condition_actual(cd))
    ELSE IF cd.eq THEN Condition_actual(cd) = cd.t
    ELSE lt(Condition_actual(cd), cd.t)

\* a Condition that compares less-than where it should compare greater-than
Condition_bool_gtlt(cd) ==
    IF bypass(cd) THEN TRUE
    ELSE IF cd.gt THEN lt(Condition_actual(cd), cd.t)
    ELSE IF cd.eq THEN Condition_actual(cd) = cd.t
    ELSE lt(Condition_actual(cd), cd.t)

\* Condition.__bool__
Condition_bool(cd) ==
    IF bypass(cd) THEN TRUE
    ELSE IF cd.gt THEN lt(cd.t, Condition_actual(cd))
    ELSE IF cd.eq THEN Condition_actual(cd) = cd.t
    ELSE lt(Condition_actual(cd), cd.t)

\* the Condition with Calc i bound to values[its name]
bind(cd, i, values) ==
    [cd EXCEPT !.calcs[i].val = Float(values[Calc_name(cd.calcs[i])])]

\* an apply() that leaves a Calc as it is when its name is missing
Condition_apply_skip(cd, values) ==
    LET has(i) == Calc_name(cd.calcs[i]) \in DOMAIN values
        cd1 == IF has(1) THEN bind(cd, 1, values) ELSE cd
        cd2 == IF has(2) THEN bind(cd1, 2, values) ELSE cd1
    IN [raised |-> "none", msg |-> <<>>, cd |-> cd2]

\* Condition.apply(calcs): the error raised and the name in its message, and
\* the Condition as the call leaves it
Condition_apply(cd, values) ==
    IF Calc_name(cd.calcs[1]) \notin DOMAIN values
    THEN [raised |-> "ConditionNotFoundError",
          msg |-> Calc_name(cd.calcs[1]), cd |-> cd]
    ELSE IF Calc_name(cd.calcs[2]) \notin DOMAIN values
    THEN [raised |-> "ConditionNotFoundError",
          msg |-> Calc_name(cd.calcs[2]), cd |-> bind(cd, 1, values)]
    ELSE [raised |-> "none", msg |-> <<>>,
          cd |-> bind(bind(cd, 1, values), 2, values)]

\* Outcome(nm, conditions, mode).cds
Outcome(conditions) == [i \in DOMAIN conditions |-> Condition(conditions[i])]

\* every Calc of every Condition, in the order Outcome.ub and Outcome.calcs
\* visit them
RECURSIVE allCalcs(_)
allCalcs(cs) ==
    IF cs = <<>> THEN <<>>
    ELSE cs[1].calcs \o allCalcs(Tail(cs))

\* Outcome.ub: max() of the truthy bounds, ValueError when there is none
Outcome_ub(cs) ==
    LET bs == {allCalcs(cs)[i].bound.v : i \in DOMAIN allCalcs(cs)}
        nz == {b \in bs : truthy(b)}
    IN IF nz = {} THEN [raised |-> "ValueError", ub |-> Float(0)]
       ELSE [raised |-> "none",
             ub |-> CHOOSE b \in nz : \A c \in nz : ~lt(b, c)]

\* total[c.name] = c: a name already held keeps its place in the dict
put(total, c) ==
    IF \E i \in DOMAIN total : Calc_name(total[i]) = Calc_name(c)
    THEN [i \in DOMAIN total |->
            IF Calc_name(total[i]) = Calc_name(c) THEN c ELSE total[i]]
    ELSE Append(total, c)

\* {c.name: c for c in cs}: the values of the dict, in insertion order
RECURSIVE byName(_, _)
byName(total, cs) ==
    IF cs = <<>> THEN total ELSE byName(put(total, cs[1]), Tail(cs))

\* calcs() that keeps every Calc, whatever its name
Outcome_calcs_all(cs, ma, other) ==
    IF ma THEN SelectSeq(allCalcs(cs), LAMBDA c : c.is_ma)
    ELSE IF other THEN SelectSeq(allCalcs(cs), LAMBDA c : ~c.is_ma)
    ELSE allCalcs(cs)

\* Outcome.calcs(ma, other): the values of the dict it returns
Outcome_calcs(cs, ma, other) ==
    LET total == byName(<<>>, allCalcs(cs))
    IN IF ma THEN SelectSeq(total, LAMBDA c : c.is_ma)
       ELSE IF other THEN SelectSeq(total, LAMBDA c : ~c.is_ma)
       ELSE total

\* [r.apply(calcs) for r in self.cds.values()], from Condition i on
RECURSIVE applyFrom(_, _, _)
applyFrom(cs, i, values) ==
    IF i > Len(cs) THEN [raised |-> "none", msg |-> <<>>, cds |-> cs]
    ELSE LET r == Condition_apply(cs[i], values)
         IN IF r.raised # "none"
            THEN [raised |-> r.raised, msg |-> r.msg,
                  cds |-> [cs EXCEPT ![i] = r.cd]]
            ELSE applyFrom([cs EXCEPT ![i] = r.cd], i + 1, values)

\* an apply() that binds every Calc or none
Outcome_apply_atomic(cs, values) ==
    IF applyFrom(cs, 1, values).raised = "none"
    THEN applyFrom(cs, 1, values)
    ELSE [applyFrom(cs, 1, values) EXCEPT !.cds = cs]

\* Outcome.apply(calcs)
Outcome_apply(cs, values) == applyFrom(cs, 1, values)

\* an Outcome that is true when some Condition is
Outcome_bool_any(cs) == \E i \in DOMAIN cs : Condition_bool(cs[i])

\* Outcome.__bool__: all(self.cds.values())
Outcome_bool(cs) == \A i \in DOMAIN cs : Condition_bool(cs[i])

\* ----------------------------------------------------------- indicators
\* A column of a DataFrame is a sequence of cells, one per row of the table;
\* a cell is NaN or holds a Float.  1/0 stands for inf.
NaN == [nan |-> TRUE, v |-> <<0, 1>>]

num(q) == [nan |-> FALSE, v |-> q]

\* df.price
price_col(o) == [i \in DOMAIN o |-> num(Float(o[i].price))]

\* Series.shift(1)
shift(col) == [i \in DOMAIN col |-> IF i = 1 THEN NaN ELSE col[i - 1]]

\* Series * float
cmul(c, q) == IF c.nan THEN NaN ELSE num(mul(c.v, q))

\* Series + Series, Series - Series, row by row
cadd(c, d) == IF c.nan \/ d.nan THEN NaN ELSE num(add(c.v, d.v))

csub(c, d) == IF c.nan \/ d.nan THEN NaN ELSE num(add(c.v, mul(Float(0 - 1), d.v)))

\* Series / Series: x/0 is inf, 0/0 is NaN
cdiv(c, d) ==
    IF c.nan \/ d.nan THEN NaN
    ELSE IF d.v[1] # 0 THEN num(truediv(c.v, d.v))
    ELSE IF c.v[1] = 0 THEN NaN
    ELSE num(<<IF c.v[1] > 0 THEN 1 ELSE 0 - 1, 0>>)

\* the cells a..b of a column hold no NaN
full(col, a, b) == \A j \in a..b : ~col[j].nan

\* sum of the cells a..b
RECURSIVE colsum(_, _, _)
colsum(col, a, b) ==
    IF a > b THEN Float(0) ELSE add(col[a].v, colsum(col, a + 1, b))

\* the largest / smallest of the cells a..b
colmax(col, a, b) ==
    (CHOOSE j \in a..b : \A k \in a..b : ~lt(col[j].v, col[k].v)) 

colmin(col, a, b) ==
    (CHOOSE j \in a..b : \A k \in a..b : ~lt(col[k].v, col[j].v))

\* rolling(w).mean(): NaN until w rows are in the window
rolling_mean(col, w) ==
    [i \in DOMAIN col |->
       IF i < w \/ ~full(col, (i - w) + 1, i) THEN NaN
       ELSE num(truediv(colsum(col, (i - w) + 1, i), Float(w)))]

\* rolling(w).max(), rolling(w).min()
rolling_max(col, w) ==
    [i \in DOMAIN col |->
       IF i < w \/ ~full(col, (i - w) + 1, i) THEN NaN
       ELSE col[colmax(col, (i - w) + 1, i)]]

rolling_min(col, w) ==
    [i \in DOMAIN col |->
       IF i < w \/ ~full(col, (i - w) + 1, i) THEN NaN
       ELSE col[colmin(col, (i - w) + 1, i)]]

\* cummax(), cummin()
cummax(col) == [i \in DOMAIN col |-> col[colmax(col, 1, i)]]

cummin(col) == [i \in DOMAIN col |-> col[colmin(col, 1, i)]]

\* self.calcs[k] = v
setcalc(c, k, v) ==
    IF \E i \in DOMAIN c : c[i].key = k
    THEN [i \in DOMAIN c |-> IF c[i].key = k THEN [key |-> k, val |-> v]
                             ELSE c[i]]
    ELSE Append(c, [key |-> k, val |-> v])

\* df.dropna() of a one-column frame over the index of o
dropna(o, col) ==
    LET rows == [i \in DOMAIN o |-> [tm |-> o[i].tm, nan |-> col[i].nan,
                                      v |-> col[i].v]]
        kept == SelectSeq(rows, LAMBDA r : ~r.nan)
    IN [i \in DOMAIN kept |-> [tm |-> kept[i].tm, v |-> kept[i].v]]

\* CoinFrame.cache(df) for a one-column frame: the last cell goes to calcs
\* under the column's name, the frame is returned without its NaN rows;
\* IndexError on a frame without rows
cache(o, c, k, col) ==
    IF o = <<>> THEN [raised |-> "IndexError", df |-> <<>>, calcs |-> c]
    ELSE [raised |-> "none", df |-> dropna(o, col),
          calcs |-> setcalc(c, k, col[Len(col)])]

\* multiplier = 2 / (n + 1)
multiplier(w) == truediv(Float(2), Float(w + 1))

\* 1 - multiplier
rest(w) == add(Float(1), mul(Float(0 - 1), multiplier(w)))

\* the column 'ema (i=1, n=w)'
ema1_col(o, w) ==
    LET sma == rolling_mean(price_col(o), w)
    IN [i \in DOMAIN o |->
          cadd(cmul(price_col(o)[i], multiplier(w)),
               cmul(shift(sma)[i], rest(w)))]

\* the column 'ema2 (i=2, n=w)'
ema2_col(o, w) ==
    [i \in DOMAIN o |->
       cadd(cmul(price_col(o)[i], multiplier(w)),
            cmul(shift(ema1_col(o, w))[i], rest(w)))]

\* the column 'dema (n=w)'
dema_col(o, w) ==
    [i \in DOMAIN o |->
       csub(cmul(ema1_col(o, w)[i], Float(2)), ema2_col(o, w)[i])]

\* an ema seeded from the average that ends at the row itself
ema_noshift(o, c, w) ==
    LET sma == rolling_mean(price_col(o), w)
    IN cache(o, c, <<Str("ema", 0), "i=1", "n", w>>,
             [i \in DOMAIN o |->
                cadd(cmul(price_col(o)[i], multiplier(w)),
                     cmul(sma[i], rest(w)))])

\* CoinFrame.ema(n)
ema(o, c, w) == cache(o, c, <<Str("ema", 0), "i=1", "n", w>>, ema1_col(o, w))

\* a dema whose second average is the first
dema_single(o, c, w) ==
    cache(o, c, <<Str("dema", 0), "n", w>>, ema1_col(o, w))

\* CoinFrame.dema(n)
dema(o, c, w) == cache(o, c, <<Str("dema", 0), "n", w>>, dema_col(o, w))

\* the quotient of the two dema columns, without the "- 1"
dema_delta_ratio(o, c, w1, w2) ==
    LET r1 == dema(o, c, w1)
        r2 == dema(o, r1.calcs, w2)
        col == [i \in DOMAIN o |-> cdiv(dema_col(o, w1)[i], dema_col(o, w2)[i])]
    IN IF r1.raised # "none" THEN r1
       ELSE IF r2.raised # "none" THEN r2
       ELSE [raised |-> "none", df |-> dropna(o, col), calcs |-> r2.calcs]

\* CoinFrame.dema_delta(n1, n2): the two Series are divided row by row on
\* their common index, a row one of them lacks is NaN and is dropped
dema_delta(o, c, w1, w2) ==
    LET r1 == dema(o, c, w1)
        r2 == dema(o, r1.calcs, w2)
        col == [i \in DOMAIN o |->
                  csub(cdiv(dema_col(o, w1)[i], dema_col(o, w2)[i]),
                       num(Float(1)))]
    IN IF r1.raised # "none" THEN r1
       ELSE IF r2.raised # "none" THEN r2
       ELSE [raised |-> "none", df |-> dropna(o, col), calcs |-> r2.calcs]

\* DataFrame.tail(k)
tail(o, k) == IF k >= Len(o) THEN o ELSE SubSeq(o, (Len(o) - k) + 1, Len(o))

\* CoinFrame.price(n)
price_(o, c, w) ==
    LET t == tail(o, IF w # 0 THEN w ELSE 1)
    IN cache(t, c, <<Str("price", 0)>>, price_col(t))

\* a max over the whole window whatever n is
max_cum(o, c, w) ==
    cache(o, c,
          IF w # 0 THEN <<Str("max", 0), "n", w>> ELSE <<Str("max", 0), "n=hist">>,
          cummax(price_col(o)))

\* CoinFrame.max(n)
max(o, c, w) ==
    cache(o, c,
          IF w # 0 THEN <<Str("max", 0), "n", w>> ELSE <<Str("max", 0), "n=hist">>,
          IF w # 0 THEN rolling_max(price_col(o), w) ELSE cummax(price_col(o)))

\* CoinFrame.min(n)
min(o, c, w) ==
    cache(o, c,
          IF w # 0 THEN <<Str("min", 0), "n", w>> ELSE <<Str("min", 0), "n=hist">>,
          IF w > 0 THEN rolling_min(price_col(o), w) ELSE cummin(price_col(o)))

\* CoinFrame.spread(n): df_max.max_hist is no column of the frame max()
\* returns, whose only column is 'max (n=...)'
spread(o, c, w) ==
    LET df_max == max(o, c, w)
        df_min == min(o, df_max.calcs, w)
    IN IF df_max.raised # "none" THEN df_max
       ELSE IF df_min.raised # "none" THEN df_min
       ELSE [raised |-> "AttributeError", df |-> <<>>, calcs |-> df_min.calcs]

\* ---------------------------------------------------------------- Init
InitPrice(t) == 10 + (2 * t)

\* a price table as db.price() returns it: one row per minute of K, oldest
\* first, the newest row el minutes old
Window(K, el) ==
    LET mx == CHOOSE x \in K : \A y \in K : x >= y
        rows == [i \in 1..Cardinality(K) |->
                   LET t == CHOOSE x \in K :
                              Cardinality({y \in K : y < x}) = i - 1
                   IN [tm |-> t, price |-> InitPrice(t),
                       cols |-> {"price", "elapsed_m"},
                       elapsed_m |-> el + (mx - t)]]
    IN IF K = {} THEN <<>> ELSE rows

\* a window of 30 consecutive minutes, freshly loaded
ExampleWindow == Window(1..30, 0)

\* OrderBook(usd, amt): a balance not given is Float()
InitBook ==
    /\ usd \in {Float(0), Float(1000)}
    /\ amt \in {Float(0), Float(5)}
    /\ orders = <<>>
    /\ id = 0
    /\ calls = <<>>

\* the order book of a frame-only behaviour: constructed, never used
IdleBook ==
    /\ usd = Float(1000)
    /\ amt = Float(0)
    /\ orders = <<>>
    /\ id = 0
    /\ calls = <<>>

InitFrame ==
    /\ \/ /\ \E K \in SUBSET (1..MaxTm), el \in {DefaultE, DefaultE + 1} :
               obj = Window(K, el)
          /\ n \in 0..MaxN
       \/ /\ obj = ExampleWindow
          /\ n = 5
    /\ src = <<>>
    /\ src_backtest = <<>>
    /\ is_backtest \in BOOLEAN
    /\ e = DefaultE
    /\ last = [op |-> "init", raised |-> "none", tm |-> 0, price |-> 0,
               is_feed |-> FALSE, pre |-> <<>>, pre_bt |-> <<>>]
    /\ updates = 0
    /\ monotone = TRUE
    /\ prepped = [done |-> FALSE, k |-> 0, ok |-> 0]

\* the frame of an order-book-only behaviour: constructed empty, never used
IdleFrame ==
    /\ obj = <<>>
    /\ src = <<>>
    /\ src_backtest = <<>>
    /\ is_backtest = TRUE
    /\ n = 0
    /\ e = DefaultE
    /\ last = [op |-> "init", raised |-> "none", tm |-> 0, price |-> 0,
               is_feed |-> FALSE, pre |-> <<>>, pre_bt |-> <<>>]
    /\ updates = 0
    /\ monotone = TRUE
    /\ prepped = [done |-> FALSE, k |-> 0, ok |-> 0]

\* the Outcome of a behaviour that evaluates no rule: no Conditions
IdleRule ==
    /\ cds = <<>>
    /\ applied = [op |-> "init", raised |-> "none", msg |-> <<>>,
                  values |-> <<>>]

\* the Calc tokens of the rule lists: a raw field, an indicator over 15
\* minutes, one over 2 hours, the historic max, and a '**' name
RawCalcs == {<<Str("price-last", 0)>>, <<Str("dema", 0), 15>>,
             <<Str("dema", 1), 2>>, <<Str("max", 0), 0>>,
             <<Str("spread", 2), 6>>}

\* the threshold tokens: "0.98", "0.98*", "0.98**" and "0.9804**"
RawThresholds == {Str(<<98, 100>>, 0), Str(<<98, 100>>, 1),
                  Str(<<98, 100>>, 2), Str(<<9804, 10000>>, 2)}

\* the raw form of a Condition
RawConditions ==
    {<<a, b, <<t>>>> : a \in RawCalcs, b \in RawCalcs, t \in RawThresholds}

\* the Conditions of the rule lists that hold more than one
ListConditions ==
    {<<a, b, <<Str(<<98, 100>>, 1)>>>> :
        a \in {<<Str("price-last", 0)>>, <<Str("dema", 1), 2>>},
        b \in {<<Str("price-last", 0)>>, <<Str("dema", 1), 2>>}}

\* the rule lists an Outcome is built from
RuleConfigs ==
    {<<>>} \cup {<<r>> : r \in RawConditions}
           \cup UNION {[1..k -> ListConditions] : k \in 2..MaxCds}

\* the values apply() is given for a name
Vals == {0, 98, 100}

\* Outcome(nm, conditions, mode), before any apply()
InitRule ==
    /\ \E cfg \in RuleConfigs : cds = Outcome(cfg)
    /\ applied = [op |-> "init", raised |-> "none", msg |-> <<>>,
                  values |-> <<>>]

\* a frame no indicator was asked of: CoinFrame.__init__ sets calcs = dict()
IdleInd ==
    /\ calcs = <<>>
    /\ result = [op |-> "init", w |-> 0, w2 |-> 0, raised |-> "none",
                 df |-> <<>>]

\* prices of the windows the indicators are computed over
IndPrices == {10, 12, 14, 16}

\* a validated price table of 1..MaxLen rows at the minutes 0, 1, ...
InitInd ==
    /\ \E L \in 1..MaxLen : \E ps \in [1..L -> IndPrices] :
          obj = [i \in 1..L |-> Row(i - 1, ps[i])]
    /\ src = <<>>
    /\ src_backtest = <<>>
    /\ is_backtest = FALSE
    /\ n = 0
    /\ e = DefaultE
    /\ last = [op |-> "init", raised |-> "none", tm |-> 0, price |-> 0,
               is_feed |-> FALSE, pre |-> <<>>, pre_bt |-> <<>>]
    /\ updates = 0
    /\ monotone = TRUE
    /\ prepped = [done |-> FALSE, k |-> 0, ok |-> 0]
    /\ calcs = <<>>
    /\ result = [op |-> "init", w |-> 0, w2 |-> 0, raised |-> "none",
                 df |-> <<>>]

Init == InitFrame /\ IdleBook /\ IdleRule /\ IdleInd

InitI == InitInd /\ IdleBook /\ IdleRule

InitB == IdleFrame /\ InitBook /\ IdleRule /\ IdleInd

InitR == IdleFrame /\ IdleBook /\ InitRule /\ IdleInd

\* ------------------------------------------------------------- actions
\* update() on a live frame, fed the latest ticker message (t, p)
Update ==
    /\ ~is_backtest
    /\ updates < MaxUpdates
    /\ \E t \in FeedTms, p \in FeedPrices :
         LET r == update(src, obj, feed(t, p)[1], feed(t, p)[2]) IN
         /\ src' = r.src
         /\ IF r.raised = "none"
            THEN obj' \in from_dict(r.src)
            ELSE obj' = obj
         /\ last' = Call("update", r.raised, t, p, FALSE)
         /\ monotone' = IF r.raised = "none"
                        THEN monotone /\ t >= last_(live)
                        ELSE monotone
    /\ updates' = updates + 1
    /\ UNCHANGED <<src_backtest, is_backtest, n, e, prepped>>
    /\ UNCHANGED bookVars
    /\ UNCHANGED ruleVars
    /\ UNCHANGED indVars

\* update() on a back-test frame
UpdateBacktest ==
    /\ is_backtest
    /\ LET r == update_backtest(src, obj, src_backtest) IN
         /\ src' = r.src
         /\ src_backtest' = r.src_backtest
         /\ IF r.raised = "none"
            THEN obj' \in from_dict(r.src)
            ELSE obj' = obj
         /\ last' = Call("update_backtest", r.raised, 0, 0, FALSE)
         /\ prepped' = IF r.raised = "none"
                       THEN [prepped EXCEPT !.ok = @ + 1]
                       ELSE prepped
    /\ UNCHANGED <<is_backtest, n, e, updates, monotone>>
    /\ UNCHANGED bookVars
    /\ UNCHANGED ruleVars
    /\ UNCHANGED indVars

\* validate(is_feed)
Validate ==
    /\ \E f \in BOOLEAN :
         LET v == validate(obj, f, is_backtest, e) IN
         /\ obj' = IF v = "none" THEN drop_columns(obj) ELSE obj
         /\ last' = Call("validate", v, 0, 0, f)
    /\ UNCHANGED <<src, src_backtest, is_backtest, n, e, updates, monotone,
                   prepped>>
    /\ UNCHANGED bookVars
    /\ UNCHANGED ruleVars
    /\ UNCHANGED indVars

\* prep_backtest()
PrepBacktest ==
    /\ LET v == validate(obj, FALSE, is_backtest, e)
           s0 == src_refresh(src, drop_columns(obj))
       IN IF v # "none"
          THEN /\ last' = Call("prep_backtest", v, 0, 0, FALSE)
               /\ UNCHANGED <<obj, src, src_backtest, prepped>>
          ELSE /\ src_backtest' = split_backtest(s0, n)
               /\ src' = split_live(s0, n)
               /\ obj' \in from_dict(split_live(s0, n))
               /\ last' = Call("prep_backtest", "none", 0, 0, FALSE)
               /\ prepped' = [done |-> TRUE, k |-> Len(split_backtest(s0, n)),
                              ok |-> 0]
    /\ UNCHANGED <<is_backtest, n, e, updates, monotone>>
    /\ UNCHANGED bookVars
    /\ UNCHANGED ruleVars
    /\ UNCHANGED indVars

Next == Update \/ UpdateBacktest \/ Validate \/ PrepBacktest

Spec == Init /\ [][Next]_vars

\* prices and timestamps of the synthetic fills
OrderPrices == {0, 100, 110}
OrderTms == 1..2

\* order(mode, price, tm)
Order ==
    /\ Len(calls) < MaxOrders
    /\ \E mode \in {"buy", "sell"}, price \in OrderPrices, tm \in OrderTms :
         LET r == order(usd, amt, orders, id, mode, Float(price), tm) IN
         /\ usd' = r.usd
         /\ amt' = r.amt
         /\ orders' = r.orders
         /\ calls' = Append(calls, [mode |-> mode, price |-> price, tm |-> tm,
                                    raised |-> r.raised,
                                    pre_usd |-> usd, pre_amt |-> amt,
                                    pre_orders |-> orders])
    /\ UNCHANGED id
    /\ UNCHANGED frameVars
    /\ UNCHANGED ruleVars
    /\ UNCHANGED indVars

NextB == Order

SpecBook == InitB /\ [][NextB]_vars

\* the canonical names of the Outcome's Calcs
names == {Calc_name(allCalcs(cds)[i]) : i \in DOMAIN allCalcs(cds)}

\* Outcome.apply(values), values a dict over some of the names
Apply ==
    /\ \E D \in SUBSET names : \E values \in [D -> Vals] :
         LET r == Outcome_apply(cds, values) IN
         /\ cds' = r.cds
         /\ applied' = [op |-> "apply", raised |-> r.raised, msg |-> r.msg,
                        values |-> values]
    /\ UNCHANGED frameVars
    /\ UNCHANGED bookVars
    /\ UNCHANGED indVars

NextR == Apply

SpecRule == InitR /\ [][NextR]_vars

\* one indicator call on a frame that computed none yet
Called(op, w1, w2, r) ==
    /\ result.op = "init"
    /\ calcs' = r.calcs
    /\ result' = [op |-> op, w |-> w1, w2 |-> w2, raised |-> r.raised,
                  df |-> r.df]
    /\ UNCHANGED frameVars
    /\ UNCHANGED bookVars
    /\ UNCHANGED ruleVars

Ema == \E w \in 1..MaxN : Called("ema", w, 0, ema(obj, calcs, w))

Dema == \E w \in 1..MaxN : Called("dema", w, 0, dema(obj, calcs, w))

DemaDelta ==
    \E w1 \in 1..MaxN, w2 \in 1..MaxN :
       Called("dema_delta", w1, w2, dema_delta(obj, calcs, w1, w2))

Price == \E w \in 0..MaxN : Called("price", w, 0, price_(obj, calcs, w))

Max == \E w \in 0..MaxN : Called("max", w, 0, max(obj, calcs, w))

Min == \E w \in 0..MaxN : Called("min", w, 0, min(obj, calcs, w))

Spread == \E w \in 0..MaxN : Called("spread", w, 0, spread(obj, calcs, w))

NextI == Ema \/ Dema \/ DemaDelta \/ Price \/ Max \/ Min \/ Spread

SpecInd == InitI /\ [][NextI]_vars

\* ------------------------------------------------------------ properties
\* the price stored under key k
priceAt(d, k) == getitem(d, k).price

\* rows in strictly ascending timestamp order (so no key twice)
ascending(d) == \A i, j \in DOMAIN d : i < j => d[i].tm < d[j].tm

\* dicts d1 and d2 hold the same price under every key of K
samePrices(d1, d2, K) == \A k \in K : priceAt(d1, k) = priceAt(d2, k)

okBacktestUpdate == last.op = "update_backtest" /\ last.raised = "none"

okLiveUpdate == last.op = "update" /\ last.raised = "none"

C2_EvictsOldest ==
    (okLiveUpdate /\ last.tm > last_(last.pre)) =>
        /\ keys(live) = (keys(last.pre) \ {first(last.pre)}) \cup {last.tm}
        /\ priceAt(live, last.tm) = last.price
        /\ samePrices(live, last.pre, keys(last.pre) \ {first(last.pre)})

C4_KeySetUnchanged ==
    (okLiveUpdate /\ last.tm <= last_(last.pre)) =>
        /\ keys(live) = keys(last.pre)
        /\ priceAt(live, last.tm) = last.price
        /\ samePrices(live, last.pre, keys(last.pre) \ {last.tm})

\* C4, amended: a live update() with a timestamp not newer than the newest key
\* evicts nothing and only sets the price stored at that timestamp; the key
\* set is unchanged when the timestamp is already a key and gains the
\* timestamp (the window grows by one entry) when it is not.
C4_MergesAtKey ==
    (okLiveUpdate /\ last.tm <= last_(last.pre)) =>
        /\ keys(live) = keys(last.pre) \cup {last.tm}
        /\ Len(live) = Cardinality(keys(last.pre) \cup {last.tm})
        /\ priceAt(live, last.tm) = last.price
        /\ samePrices(live, last.pre, keys(last.pre) \ {last.tm})
        /\ keys(obj) = keys(live)

C4_Witness ==
    /\ okLiveUpdate
    /\ last.tm < last_(last.pre)
    /\ last.tm \notin keys(last.pre)
    /\ Len(live) = Len(last.pre) + 1

\* C5: a back-test update() on an empty replay queue raises
\* BackTestCompletedError and changes neither the live buffer nor the queue.
C5_ExhaustedNoUpdate ==
    (last.op = "update_backtest" /\ last.pre_bt = <<>>) =>
        /\ last.raised = "BackTestCompletedError"
        /\ src_backtest = <<>>
        /\ live = last.pre
        /\ tp(obj) = tp(last.pre)

C5_Witness ==
    /\ last.op = "update_backtest"
    /\ last.raised = "BackTestCompletedError"
    /\ last.pre_bt = <<>>
    /\ prepped.done
    /\ prepped.ok >= 2
    /\ Len(live) >= 2

\* C6, as stated: after prep_backtest left k entries in the replay queue, a
\* back-test update() succeeds exactly while the queue holds an entry, each
\* success removes the oldest remaining entry, and the first call that raises
\* BackTestCompletedError comes after exactly k successful updates.
C6_ConsumesAllThenRaises ==
    (is_backtest /\ prepped.done /\ last.op = "update_backtest") =>
        /\ (last.raised = "none") <=> (last.pre_bt # <<>>)
        /\ last.raised = "none" =>
             tp(src_backtest) = tp(pop(last.pre_bt, first(last.pre_bt)))
        /\ prepped.ok + Len(src_backtest) = prepped.k
        /\ last.raised = "BackTestCompletedError" => prepped.ok = prepped.k

\* C7: a successful prep_backtest on a window in chronological order leaves in
\* the live buffer exactly the rows with tm < first + 2n, moves every other
\* row with its price to the replay queue, in ascending timestamp order; no
\* row is lost or held twice.  Over 30 consecutive minutes with n = 5 that is
\* 10 live rows and 20 replay rows.
C7_PrepPartitions ==
    (last.op = "prep_backtest" /\ last.raised = "none" /\ ascending(last.pre)) =>
        LET bound == first(last.pre) + (2 * n) IN
        /\ tp(live) = tp(SelectSeq(last.pre, LAMBDA r : r.tm < bound))
        /\ tp(obj) = tp(live)
        /\ tp(src_backtest) = tp(SelectSeq(last.pre, LAMBDA r : r.tm >= bound))
        /\ ascending(src_backtest)
        /\ keys(live) \cap keys(src_backtest) = {}
        /\ Len(live) + Len(src_backtest) = Len(last.pre)
        /\ (tp(last.pre) = tp(ExampleWindow) /\ n = 5) =>
              (Len(live) = 10 /\ Len(obj) = 10 /\ Len(src_backtest) = 20)

C7_Witness ==
    /\ last.op = "prep_backtest"
    /\ last.raised = "none"
    /\ tp(last.pre) = tp(ExampleWindow)
    /\ n = 5
    /\ Len(obj) = 10
    /\ Len(src_backtest) = 20

\* C8: as long as every ticker timestamp fed to a live update() was not older
\* than the newest key of the window, the price table and the dict behind it
\* hold their rows in strictly ascending timestamp order, one row per
\* timestamp, through update(), prep_backtest() and back-test updates.
C8_WindowChronological ==
    monotone => (ascending(obj) /\ ascending(src) /\ ascending(src_backtest))

C8_Witness ==
    /\ monotone
    /\ okBacktestUpdate
    /\ prepped.ok >= 2
    /\ Len(obj) >= 2

C8_WitnessLive ==
    /\ monotone
    /\ okLiveUpdate
    /\ updates >= 2
    /\ prepped.done
    /\ Len(obj) >= 2

\* the balances the order book was constructed with
initUsd == IF calls = <<>> THEN usd ELSE calls[1].pre_usd

initAmt == IF calls = <<>> THEN amt ELSE calls[1].pre_amt

\* some order() call so far returned an order
traded == \E i \in DOMAIN calls : calls[i].raised = "none"

\* C9, as stated: from construction on, exactly one of usd and amt is nonzero.
C9_ExactlyOneNonzero == truthy(usd) # truthy(amt)

\* C9, amended: exactly one of usd and amt is nonzero in every state after a
\* successful order() call, and in every state of an order book constructed
\* with exactly one nonzero balance; a book constructed with the default
\* balances holds zero on both sides, one constructed with two balances holds
\* both until its first successful order.
C9_OneSidedOnceTraded ==
    (traded \/ (truthy(initUsd) # truthy(initAmt))) =>
        (truthy(usd) # truthy(amt))

C9_Witness ==
    /\ truthy(initUsd)
    /\ truthy(initAmt)
    /\ Len(calls) >= 2
    /\ calls[1].raised = "none"
    /\ calls[2].raised = "none"
    /\ truthy(amt)
    /\ ~truthy(usd)

\* C10: a successful order('buy', price, t) leaves amt = amt + usd/price and
\* usd = 0; a successful order('sell', price, t) leaves usd = usd + amt*price
\* and amt = 0.  From usd 1000 and amt 0, a buy at 100 leaves (0, 10) and a
\* sell at 110 after it leaves (1100, 0).
C10_OrderArithmetic ==
    calls # <<>> =>
        LET c == calls[Len(calls)]
            pu == c.pre_usd
            pa == c.pre_amt
        IN
        /\ (c.raised = "none" /\ c.mode = "buy") =>
              /\ usd = <<0, 1>>
              /\ amt[1] * (pa[2] * pu[2] * c.price)
                   = amt[2] * ((pa[1] * pu[2] * c.price) + (pu[1] * pa[2]))
        /\ (c.raised = "none" /\ c.mode = "sell") =>
              /\ amt = <<0, 1>>
              /\ usd[1] * (pu[2] * pa[2])
                   = usd[2] * ((pu[1] * pa[2]) + (pa[1] * c.price * pu[2]))
        /\ (/\ initUsd = <<1000, 1>> /\ initAmt = <<0, 1>>
            /\ calls[1].mode = "buy" /\ calls[1].price = 100) =>
              /\ Len(calls) = 1 => (usd = <<0, 1>> /\ amt = <<10, 1>>)
              /\ (/\ Len(calls) = 2
                  /\ calls[2].mode = "sell" /\ calls[2].price = 110) =>
                    (usd = <<1100, 1>> /\ amt = <<0, 1>>)

C10_Witness ==
    /\ Len(calls) = 2
    /\ initUsd = <<1000, 1>> /\ initAmt = <<0, 1>>
    /\ calls[1].mode = "buy" /\ calls[1].price = 100 /\ calls[1].tm = 1
    /\ calls[2].mode = "sell" /\ calls[2].price = 110 /\ calls[2].tm = 2
    /\ calls[2].raised = "none"
    /\ usd = <<1100, 1>>
    /\ amt = <<0, 1>>

\* the calls so far that returned an order
succeeded == SelectSeq(calls, LAMBDA c : c.raised = "none")

\* the balance a call's order acquires, as its Order record holds it
acquired(o) == IF o.side = "buy" THEN o.filled_size ELSE o.executed_value

\* the balance call c computed for the side it acquires
computed(c) ==
    IF c.mode = "buy"
    THEN add(c.pre_amt, truediv(c.pre_usd, Float(c.price)))
    ELSE add(c.pre_usd, mul(c.pre_amt, Float(c.price)))

\* C11, as stated: after k successful order() calls, whatever their
\* timestamps, the book holds k order records in call order, each with the
\* side and the resulting balance of its call.
C11_RecordPerSuccessfulCall ==
    /\ Len(orders) = Len(succeeded)
    /\ \A k \in DOMAIN orders :
          k <= Len(succeeded) =>
             /\ orders[k].side = succeeded[k].mode
             /\ orders[k].tm = succeeded[k].tm
             /\ acquired(orders[k]) = computed(succeeded[k])

\* C12: whenever the balance order() computes for the side being acquired
\* (amt + usd/price for a buy, usd + amt*price for a sell) is zero, the call
\* fails with an AssertionError, both balances stay as they were and no
\* order record is added.
C12_ZeroBalanceAsserts ==
    \A k \in DOMAIN calls :
       LET c == calls[k]
           post == IF k = Len(calls)
                   THEN [usd |-> usd, amt |-> amt, orders |-> orders]
                   ELSE [usd |-> calls[k + 1].pre_usd,
                         amt |-> calls[k + 1].pre_amt,
                         orders |-> calls[k + 1].pre_orders]
       IN ((c.mode = "sell" \/ c.price # 0) /\ computed(c) = Float(0)) =>
             /\ c.raised = "AssertionError"
             /\ post.usd = c.pre_usd
             /\ post.amt = c.pre_amt
             /\ post.orders = c.pre_orders

\* a sell at price 0 of a book that holds the asset only, after a buy
C12_Witness ==
    /\ Len(calls) = 2
    /\ calls[1].raised = "none" /\ calls[1].mode = "buy"
    /\ calls[2].mode = "sell" /\ calls[2].price = 0
    /\ truthy(calls[2].pre_amt)
    /\ calls[2].raised = "AssertionError"
    /\ Len(orders) = 1

\* some Calc of Condition cd is named 'price-last' and holds zero
coldStart(cd) ==
    \E i \in 1..2 : /\ cd.calcs[i].nm = Str("price-last", 0)
                    /\ cd.calcs[i].val = <<0, 1>>

\* C13: a Condition in which either Calc has name 'price-last' and a zero or
\* unset value is true, for every operator, every threshold and every value
\* of the other Calc.
C13_ColdStartBypass ==
    \A k \in DOMAIN cds : coldStart(cds[k]) => Condition_bool(cds[k])

\* apply() bound zero to 'price-last' and a value to the other Calc, and the
\* greater-than comparison of the quotient 0 alone would be false
C13_Witness ==
    /\ applied.op = "apply" /\ applied.raised = "none"
    /\ \E k \in DOMAIN cds :
          /\ cds[k].calcs[1].nm = Str("price-last", 0)
          /\ cds[k].calcs[1].val = <<0, 1>>
          /\ cds[k].calcs[2].val = <<100, 1>>
          /\ cds[k].t_r = Str(<<98, 100>>, 1)
          /\ Condition_bool(cds[k])

\* the quotient calcs[2] / calcs[1] of cd compared with the threshold th by
\* the operator that `stars` trailing markers select; a quotient with a zero
\* operand counts as 0
compares(cd, stars, th) ==
    LET v1 == cd.calcs[1].val
        v2 == cd.calcs[2].val
        zero == v1[1] = 0 \/ v2[1] = 0
        l == IF zero THEN 0 ELSE v2[1] * v1[2] * th[2]
        r == IF zero THEN th[1] ELSE th[1] * v2[2] * v1[1]
    IN IF stars = 2 THEN l = r
       ELSE IF stars = 1 THEN l > r
       ELSE l < r

\* C14, as stated: '**' selects equality, a single '*' greater-than, no
\* marker less-than; the threshold is the numeral of the token with the
\* markers stripped; without a cold-start bypass the Condition is true
\* exactly when calcs[2] / calcs[1] OP that numeral.
C14_ThresholdIsToken ==
    \A k \in DOMAIN cds :
       LET cd == cds[k] IN
       /\ cd.eq = (cd.t_r.stars = 2)
       /\ cd.gt = (cd.t_r.stars = 1)
       /\ cd.t[1] * cd.t_r.stem[2] = cd.t_r.stem[1] * cd.t[2]
       /\ ~coldStart(cd) =>
             (Condition_bool(cd) = compares(cd, cd.t_r.stars, cd.t_r.stem))

\* the numeral q rounded to three decimals, in thousandths
thousandths(q) == ((2000 * q[1]) + q[2]) \div (2 * q[2])

\* C14, amended: '**' selects equality, a single '*' greater-than, no marker
\* less-than; the threshold is the numeral of the token with the markers
\* stripped, rounded to three decimals; without a cold-start bypass the
\* Condition is true exactly when calcs[2] / calcs[1] OP that rounded
\* threshold.
C14_ThresholdRounded ==
    \A k \in DOMAIN cds :
       LET cd == cds[k] IN
       /\ cd.eq = (cd.t_r.stars = 2)
       /\ cd.gt = (cd.t_r.stars = 1)
       /\ cd.t[1] * 1000 = thousandths(cd.t_r.stem) * cd.t[2]
       /\ ~coldStart(cd) =>
             (Condition_bool(cd) =
                compares(cd, cd.t_r.stars, <<thousandths(cd.t_r.stem), 1000>>))

\* "0.9804**" with 98 / 100: equal to the rounded threshold 0.98
C14_Witness ==
    /\ applied.op = "apply" /\ applied.raised = "none"
    /\ \E k \in DOMAIN cds :
          /\ cds[k].t_r = Str(<<9804, 10000>>, 2)
          /\ cds[k].calcs[1].val = <<100, 1>>
          /\ cds[k].calcs[2].val = <<98, 1>>
          /\ ~coldStart(cds[k])
          /\ Condition_bool(cds[k])

\* the names of the Outcome's Calcs that the last values do not hold
unresolved == names \ DOMAIN applied.values

\* C15: apply(values) raises ConditionNotFoundError, its message naming an
\* unresolved canonical name, whenever some Calc's canonical name is not a
\* key of values; when every name is a key it raises nothing and every Calc
\* holds the value mapped to its name.
C15_ApplyRaisesOnMissing ==
    applied.op = "apply" =>
       /\ unresolved # {} =>
             /\ applied.raised = "ConditionNotFoundError"
             /\ applied.msg \in unresolved
       /\ unresolved = {} =>
             /\ applied.raised = "none"
             /\ \A i \in DOMAIN allCalcs(cds) :
                   LET c == allCalcs(cds)[i]
                   IN c.val = <<applied.values[Calc_name(c)], 1>>

\* an apply() that found the first Condition's names and not the second's
C15_Witness ==
    /\ applied.op = "apply"
    /\ applied.raised = "ConditionNotFoundError"
    /\ Len(cds) = 2
    /\ DOMAIN applied.values # {}
    /\ Calc_name(cds[1].calcs[1]) \in DOMAIN applied.values
    /\ Calc_name(cds[1].calcs[2]) \in DOMAIN applied.values
    /\ applied.msg = Calc_name(cds[2].calcs[2])

\* C16: an Outcome is true exactly when every one of its Conditions is true;
\* an Outcome without Conditions is true.
C16_OutcomeIsConjunction ==
    /\ Outcome_bool(cds) = ~(\E k \in DOMAIN cds : ~Condition_bool(cds[k]))
    /\ cds = <<>> => Outcome_bool(cds)

\* two Conditions with values applied, the first true and the second false
C16_Witness ==
    /\ applied.op = "apply" /\ applied.raised = "none"
    /\ Len(cds) = 2
    /\ Condition_bool(cds[1])
    /\ ~coldStart(cds[1])
    /\ ~Condition_bool(cds[2])
    /\ ~Outcome_bool(cds)

\* the Calcs of a sequence, as a set
range(f) == {f[i] : i \in DOMAIN f}

\* C17: calcs() holds exactly one Calc per distinct canonical name over all
\* Calcs of all Conditions; calcs(ma=True) holds exactly those with is_ma,
\* calcs(other=True) exactly those without; the two are disjoint and their
\* union is calcs().
C17_CalcsPartition ==
    LET total == Outcome_calcs(cds, FALSE, FALSE)
        ma == Outcome_calcs(cds, TRUE, FALSE)
        other == Outcome_calcs(cds, FALSE, TRUE)
    IN /\ {Calc_name(total[i]) : i \in DOMAIN total} = names
       /\ \A i, j \in DOMAIN total :
             Calc_name(total[i]) = Calc_name(total[j]) => i = j
       /\ range(total) \subseteq range(allCalcs(cds))
       /\ range(ma) = {c \in range(total) : c.is_ma}
       /\ range(other) = {c \in range(total) : ~c.is_ma}
       /\ Len(ma) + Len(other) = Len(total)
       /\ range(ma) \cap range(other) = {}
       /\ range(ma) \cup range(other) = range(total)

\* four Calcs under two names, one an indicator and one a raw field
C17_Witness ==
    /\ Len(cds) = 2
    /\ Cardinality(names) = 2
    /\ Len(Outcome_calcs(cds, TRUE, FALSE)) = 1
    /\ Len(Outcome_calcs(cds, FALSE, TRUE)) = 1
    /\ applied.op = "apply"

\* C18, as stated: for every Outcome built from a rule list, ub is the
\* maximum of the nonzero bounds of the Calcs of its Conditions.
C18_UbIsMaxNonzeroBound ==
    LET r == Outcome_ub(cds)
        nz == {c.bound.v : c \in {x \in range(allCalcs(cds)) :
                                     x.bound.v[1] # 0}}
    IN /\ r.raised = "none"
       /\ r.ub \in nz
       /\ \A b \in nz : b[1] * r.ub[2] <= r.ub[1] * b[2]

\* what C19 says a name token and its bound element parse to
parsed(raw) ==
    [nm |-> Str(raw[1].stem, 0),
     bound |-> (IF Len(raw) = 2 THEN raw[2] ELSE 0 - 1)
                 * (IF raw[1].stars > 0 THEN 60 ELSE 1)]

\* C19, as stated: the bound is the second element, or -1 without one; a
\* name ending in '*' has the marker stripped and its bound multiplied by
\* 60, a name ending in '**' has both markers stripped and its bound
\* multiplied by 60 once; the stored name never ends in '*'.
C19_NameStripped ==
    \A i \in DOMAIN allCalcs(cds) :
       LET c == allCalcs(cds)[i] IN
       /\ c.nm = parsed(c.raw).nm
       /\ c.bound.v = <<parsed(c.raw).bound, 1>>
       /\ ~endswith(c.nm, 1)

\* C20: Calc / Calc never fails; it is 0 when either operand's value is zero
\* or unset, and the quotient of the two values otherwise.
C20_DivisionTotal ==
    \A k \in DOMAIN cds : \A i, j \in 1..2 :
       LET a == cds[k].calcs[i]
           b == cds[k].calcs[j]
           q == Calc_truediv(a, b)
       IN /\ q[2] > 0
          /\ (a.val[1] = 0 \/ b.val[1] = 0) => q = <<0, 1>>
          /\ (a.val[1] # 0 /\ b.val[1] # 0) =>
                q[1] * (a.val[2] * b.val[1]) = q[2] * (a.val[1] * b.val[2])

\* a Condition holding 98 and 0, and one holding 98 and 100
C20_Witness ==
    /\ applied.op = "apply"
    /\ \E k \in DOMAIN cds : /\ cds[k].calcs[1].val = <<98, 1>>
                             /\ cds[k].calcs[2].val = <<0, 1>>
    /\ \E k \in DOMAIN cds : /\ cds[k].calcs[1].val = <<100, 1>>
                             /\ cds[k].calcs[2].val = <<98, 1>>
                             /\ Calc_truediv(cds[k].calcs[2], cds[k].calcs[1])
                                  = <<49, 50>>

\* the newest row of the table holds an age above the threshold
stale(o, thr) ==
    /\ o # <<>>
    /\ "elapsed_m" \in o[Len(o)].cols
    /\ o[Len(o)].elapsed_m > thr

\* C21: validate() raises ExpiredPriceDataError exactly when the frame is not
\* in back-test mode, is_feed is not set and the newest row's elapsed_m
\* exceeds the threshold e; when it raises, the price table is left as it
\* was.
C21_StaleRaises ==
    [][last'.op = "validate" =>
         /\ (last'.raised = "ExpiredPriceDataError") <=>
               (~is_backtest /\ ~last'.is_feed /\ stale(obj, e))
         /\ last'.raised = "ExpiredPriceDataError" => obj' = obj]_vars

\* a live validate() that raised on a table two minutes old, columns kept
C21_Witness ==
    /\ last.op = "validate"
    /\ last.raised = "ExpiredPriceDataError"
    /\ ~is_backtest
    /\ stale(obj, e)
    /\ Len(obj) >= 2

\* C28, as stated: after prep_backtest, for every warm-up length n, a
\* back-test update() on a replay queue that holds an entry succeeds and
\* consumes the queue's oldest entry.
C28_RaisesOnlyWhenExhausted ==
    (prepped.done /\ last.op = "update_backtest" /\ last.pre_bt # <<>>) =>
        /\ last.raised = "none"
        /\ tp(src_backtest) = tp(pop(last.pre_bt, first(last.pre_bt)))

\* position of the first Calc of cs whose name values does not hold, or
\* Len(cs) + 1
firstMissing(cs, values) ==
    CHOOSE m \in 1..(Len(cs) + 1) :
       /\ \A i \in 1..(m - 1) : Calc_name(cs[i]) \in DOMAIN values
       /\ m <= Len(cs) => Calc_name(cs[m]) \notin DOMAIN values

\* C29: apply(values) binds the Calcs in order, Condition by Condition, and
\* stops at the first Calc whose canonical name values does not hold: every
\* Calc before it holds its newly bound value, every Calc from it on holds
\* the value it held before the call.
C29_ApplyStopsAtFirstMissing ==
    [][applied'.op = "apply" =>
         LET before == allCalcs(cds)
             after == allCalcs(cds')
             m == firstMissing(before, applied'.values)
         IN /\ Len(after) = Len(before)
            /\ (applied'.raised = "ConditionNotFoundError") <=> (m <= Len(before))
            /\ \A i \in DOMAIN before :
                  /\ i < m => after[i].val
                                = <<applied'.values[Calc_name(before[i])], 1>>
                  /\ i >= m => after[i].val = before[i].val]_vars

\* an apply() that bound 98 to the first Calc and stopped at the second,
\* leaving 100 from an earlier apply() in a later Calc of the same name
C29_Witness ==
    /\ applied.op = "apply"
    /\ applied.raised = "ConditionNotFoundError"
    /\ Len(cds) = 2
    /\ applied.msg = Calc_name(cds[1].calcs[2])
    /\ Calc_name(cds[2].calcs[2]) = Calc_name(cds[1].calcs[1])
    /\ cds[1].calcs[1].val = <<98, 1>>
    /\ cds[2].calcs[2].val = <<100, 1>>

\* call c repeats the side the book already holds
repeats(c) ==
    \/ c.mode = "buy" /\ ~truthy(c.pre_usd) /\ truthy(c.pre_amt)
    \/ c.mode = "sell" /\ ~truthy(c.pre_amt) /\ truthy(c.pre_usd)

\* the last call left the balances as they were and its order is the record
\* held for its timestamp
recordedUnchanged(c) ==
    /\ c.raised = "none"
    /\ usd = c.pre_usd
    /\ amt = c.pre_amt
    /\ c.tm \in keys(orders)
    /\ getitem(orders, c.tm).side = c.mode
    /\ acquired(getitem(orders, c.tm)) = computed(c)

\* C30, as stated: an order() call that repeats the side already held does
\* not fail, leaves both balances unchanged and records an order for its
\* timestamp.
C30_RepeatedSideRecorded ==
    (calls # <<>> /\ repeats(calls[Len(calls)])) =>
        recordedUnchanged(calls[Len(calls)])

\* C30, amended: an order() call that repeats the side already held, at a
\* price that is not zero if it is a buy, does not fail, leaves both balances
\* unchanged and records an order for its timestamp; a buy at price 0 raises
\* ZeroDivisionError and changes nothing.
C30_RepeatedSideNonzeroPrice ==
    (calls # <<>> /\ repeats(calls[Len(calls)])) =>
        LET c == calls[Len(calls)] IN
        IF c.mode = "buy" /\ c.price = 0
        THEN /\ c.raised = "ZeroDivisionError"
             /\ usd = c.pre_usd /\ amt = c.pre_amt /\ orders = c.pre_orders
        ELSE recordedUnchanged(c)

\* a second sell at a new timestamp, after a sell that emptied the asset
C30_Witness ==
    /\ Len(calls) = 2
    /\ calls[1].mode = "sell" /\ calls[1].raised = "none"
    /\ calls[2].mode = "sell" /\ calls[2].raised = "none"
    /\ calls[2].tm # calls[1].tm
    /\ repeats(calls[2])
    /\ Len(orders) = 2
    /\ usd = calls[2].pre_usd

\* the price at position t of the window, positions counted from 0
priceOf(t) == obj[t + 1].price

\* the sum of the prices at the positions a..b
RECURSIVE priceSum(_, _)
priceSum(a, b) == IF a > b THEN 0 ELSE priceOf(a) + priceSum(a + 1, b)

\* the positions of the window
positions == 0..(Len(obj) - 1)

\* the rows of the last result are those of the positions in P, in order
retains(P) ==
    /\ Len(result.df) = Cardinality(P)
    /\ \A i \in DOMAIN result.df :
          /\ result.df[i].tm \in {obj[t + 1].tm : t \in P}
          /\ \A j \in DOMAIN result.df :
                i < j => result.df[i].tm < result.df[j].tm

\* the value the last result holds at position t
valueAt(t) ==
    (CHOOSE r \in {result.df[i] : i \in DOMAIN result.df} :
        r.tm = obj[t + 1].tm).v

\* q = a / b, for b > 0
equals(q, a, b) == q[1] * b = a * q[2]

\* C22: ema(n) emits at each position t >= n the value
\* price(t)*m + sma(t-1)*(1-m), m = 2/(n+1), sma(t-1) the mean of the n
\* prices ending at t-1, and drops the positions before n; over the window
\* {0:10, 1:12, 2:14, 3:16}, ema(2) is {2: 13, 3: 15}.
C22_EmaSeededFromSma ==
    (result.op = "ema") =>
        /\ result.raised = "none"
        /\ retains({t \in positions : t >= result.w})
        /\ \A t \in positions :
              t >= result.w =>
                 equals(valueAt(t),
                        (2 * result.w * priceOf(t))
                           + ((result.w - 1) * priceSum(t - result.w, t - 1)),
                        result.w * (result.w + 1))
        /\ (/\ result.w = 2
            /\ tp(obj) = <<<<0, 10>>, <<1, 12>>, <<2, 14>>, <<3, 16>>>>) =>
              result.df = <<[tm |-> 2, v |-> <<13, 1>>],
                            [tm |-> 3, v |-> <<15, 1>>]>>

\* ema(2) over a window of four prices that are not in arithmetic sequence
C22_Witness ==
    /\ result.op = "ema"
    /\ result.w = 2
    /\ tp(obj) = <<<<0, 10>>, <<1, 16>>, <<2, 12>>, <<3, 16>>>>
    /\ Len(result.df) = 2
    /\ result.df[2] = [tm |-> 3, v |-> <<46, 3>>]

\* the timestamps of the rows of a result
tms(df) == {df[i].tm : i \in DOMAIN df}

\* the value a result holds at timestamp t
at(df, t) == (CHOOSE r \in {df[i] : i \in DOMAIN df} : r.tm = t).v

\* C23: for n >= 1, ema(n) retains the positions n and later and dema(n) the
\* positions n+1 and later: over a window that has a position n, dema(n)
\* omits exactly one more leading position than ema(n).
C23_DemaDropsOneMore ==
    (result.op = "dema") =>
        LET E == ema(obj, <<>>, result.w).df IN
        /\ result.raised = "none"
        /\ retains({t \in positions : t >= result.w + 1})
        /\ tms(E) = {obj[t + 1].tm : t \in {u \in positions : u >= result.w}}
        /\ Len(obj) > result.w =>
              /\ Len(E) = Len(result.df) + 1
              /\ tms(result.df) = tms(E) \ {E[1].tm}

\* dema(2) over four rows: ema(2) holds two rows, dema(2) one
C23_Witness ==
    /\ result.op = "dema"
    /\ result.w = 2
    /\ Len(obj) = 4
    /\ Len(result.df) = 1
    /\ result.df[1].tm = 3
    /\ Len(ema(obj, <<>>, 2).df) = 2

\* C24: dema_delta(n1, n2) retains exactly the timestamps that both dema(n1)
\* and dema(n2) retain, and its value at each of them is
\* dema(n1) / dema(n2) - 1.
C24_DemaDeltaIsRatio ==
    (result.op = "dema_delta") =>
        LET D1 == dema(obj, <<>>, result.w).df
            D2 == dema(obj, <<>>, result.w2).df
        IN /\ result.raised = "none"
           /\ tms(result.df) = tms(D1) \cap tms(D2)
           /\ Len(result.df) = Cardinality(tms(D1) \cap tms(D2))
           /\ \A t \in tms(result.df) :
                 LET v == at(result.df, t)
                     d1 == at(D1, t)
                     d2 == at(D2, t)
                 IN /\ d2[1] # 0
                    /\ (v[1] + v[2]) * (d1[2] * d2[1])
                          = v[2] * (d1[1] * d2[2])

\* dema_delta(1, 2) over four rows, the two averages apart
C24_Witness ==
    /\ result.op = "dema_delta"
    /\ result.w = 1 /\ result.w2 = 2
    /\ Len(obj) = 4
    /\ Len(result.df) = 1
    /\ result.df[1].tm = 3
    /\ result.df[1].v[1] # 0

\* the largest / smallest price at the positions a..b
priceMax(a, b) ==
    CHOOSE x \in {priceOf(t) : t \in a..b} :
       \A y \in {priceOf(t) : t \in a..b} : x >= y

priceMin(a, b) ==
    CHOOSE x \in {priceOf(t) : t \in a..b} :
       \A y \in {priceOf(t) : t \in a..b} : x <= y

\* C25: max(0) / min(0) hold at every position the largest / smallest price
\* from the start of the window up to it; max(n) / min(n), n > 0, hold at
\* each position from n-1 on the largest / smallest of the n prices ending
\* at it.
C25_MaxMinWindow ==
    /\ (result.op = "max" /\ result.w = 0) =>
          /\ retains(positions)
          /\ \A t \in positions : valueAt(t) = <<priceMax(0, t), 1>>
    /\ (result.op = "min" /\ result.w = 0) =>
          /\ retains(positions)
          /\ \A t \in positions : valueAt(t) = <<priceMin(0, t), 1>>
    /\ (result.op = "max" /\ result.w > 0) =>
          /\ retains({t \in positions : t >= result.w - 1})
          /\ \A t \in positions :
                t >= result.w - 1 =>
                   valueAt(t) = <<priceMax((t - result.w) + 1, t), 1>>
    /\ (result.op = "min" /\ result.w > 0) =>
          /\ retains({t \in positions : t >= result.w - 1})
          /\ \A t \in positions :
                t >= result.w - 1 =>
                   valueAt(t) = <<priceMin((t - result.w) + 1, t), 1>>

\* max(2) over a window whose first price is its largest
C25_Witness ==
    /\ result.op = "max"
    /\ result.w = 2
    /\ tp(obj) = <<<<0, 16>>, <<1, 10>>, <<2, 12>>>>
    /\ result.df = <<[tm |-> 1, v |-> <<16, 1>>], [tm |-> 2, v |-> <<12, 1>>]>>

\* C26, as stated: spread(n) completes without error, for every window and
\* every n, 0 included, and holds at each position it retains the value
\* max(n) - min(n) of that position.
C26_SpreadIsMaxMinusMin ==
    (result.op = "spread") =>
        LET mx == max(obj, <<>>, result.w).df
            mn == min(obj, <<>>, result.w).df
        IN /\ result.raised = "none"
           /\ tms(result.df) = tms(mx) \cap tms(mn)
           /\ \A t \in tms(result.df) :
                 at(result.df, t)
                    = add(at(mx, t), mul(Float(0 - 1), at(mn, t)))

\* the name of a Calc that requests the indicator of the last call with the
\* call's window as its bound
requested == Calc_name(Calc(<<Str(result.op, 0), result.w>>))

\* C27, as stated: after an indicator computation with window n, calcs holds
\* an entry for the indicator under the name Calc.name gives a Calc that
\* requests it with bound n.
C27_CachedUnderCalcName ==
    (result.op # "init") => \E i \in DOMAIN calcs : calcs[i].key = requested

====
